---- MODULE Spec2Model ----
(***************************************************************************)
(* Model of nuitka/nodes/ExpressionShapeMixins.py: the exact-shape mixins  *)
(* of expression nodes.  A node is bound to one mixin name of the module;  *)
(* the optimizer calls the capability queries on it.  Every query is a     *)
(* pure method, so the state is the node, the last call made on it and the *)
(* value that call returned.                                               *)
(*                                                                         *)
(* Python values are encoded as tuples of strings:                         *)
(*   <<"bool", "True">>, <<"bool", "False">>, <<"NoneType", "None">>,      *)
(*   <<"shape", tshape name>>, <<"attr", type name, attribute name>>,      *)
(*   <<"raise", exception name>>,                                          *)
(*   <<"node", "ConstantRef", constant, source_ref>>.                      *)
(***************************************************************************)
EXTENDS Naturals, FiniteSets, Sequences

VARIABLES str_is_bytes, mixin, source_ref, method, exception_type,
          attribute_name, ret

vars == <<str_is_bytes, mixin, source_ref, method, exception_type,
          attribute_name, ret>>

(* ---------------------------- bounds ---------------------------------- *)

MaxSourceRef == 2

SourceRefs == 1 .. MaxSourceRef

(* Exception types the optimizer asks about. *)
ExceptionTypes == {"AttributeError", "TypeError", "BaseException"}

(* Attribute names probed. *)
AttributeNames ==
  {"append", "keys", "add", "count", "decode", "isnumeric", "hex", "real",
   "nonexistent_xyz"}

(* ------------------------- Python values ------------------------------ *)

PyTrue == <<"bool", "True">>

PyFalse == <<"bool", "False">>

PyNone == <<"NoneType", "None">>

PyBool(b) == IF b THEN PyTrue ELSE PyFalse

PyNot(v) == IF v = PyTrue THEN PyFalse ELSE PyTrue

NoCall == <<"nothing">>

NoArg == "-"

(* ------------------- classes and module namespace --------------------- *)

DictMixin == "ExpressionDictShapeExactMixin"

ListMixin == "ExpressionListShapeExactMixin"

FrozensetMixin == "ExpressionFrozensetShapeExactMixin"

SetMixin == "ExpressionSetShapeExactMixin"

TupleMixin == "ExpressionTupleShapeExactMixin"

BoolMixin == "ExpressionBoolShapeExactMixin"

StrMixin == "ExpressionStrExactMixin"

BytesMixin == "ExpressionBytesShapeExactMixin"

BytearrayMixin == "ExpressionBytearrayShapeExactMixin"

UnicodeMixin == "ExpressionUnicodeShapeExactMixin"

StrOrUnicodeMixin == "ExpressionStrOrUnicodeExactMixin"

(* The mixin names a node can be bound to. *)
MixinNames ==
  {DictMixin, ListMixin, FrozensetMixin, SetMixin, TupleMixin, BoolMixin,
   StrMixin, BytesMixin, BytearrayMixin, UnicodeMixin, StrOrUnicodeMixin}

(* The class a mixin name is bound to in the module namespace: with        *)
(* unified text the str-or-unicode name is an alias of the str class.      *)
(* Variant: the str-or-unicode name always bound to its own class. *)
ClassOf_NoAlias(name, py2) == name

ClassOf(name, py2) ==
  IF name = StrOrUnicodeMixin /\ ~py2 THEN StrMixin ELSE name

(* ----------------- built-in types and their members ------------------- *)

(* Members of the built-in types among AttributeNames; the text and byte   *)
(* types differ between the two runtime configurations.                    *)
Members(type, py2) ==
  CASE type = "dict" -> {"keys"}
    [] type = "list" -> {"append", "count"}
    [] type = "set" -> {"add"}
    [] type = "frozenset" -> {}
    [] type = "tuple" -> {"count"}
    [] type = "bool" -> {"real"}
    [] type = "bytearray" ->
         IF py2 THEN {"append", "count", "decode"}
         ELSE {"append", "count", "decode", "hex"}
    [] type = "str" ->
         IF py2 THEN {"count", "decode"} ELSE {"count", "isnumeric"}
    [] type = "unicode" -> {"count", "decode", "isnumeric"}
    [] type = "bytes" -> {"count", "decode", "hex"}

hasattr(type, py2, name) == name \in Members(type, py2)

getattr(type, py2, name) ==
  IF name \in Members(type, py2) THEN <<"attr", type, name>>
  ELSE <<"raise", "AttributeError">>

(* The type of the literals "", u"" and b"" in each configuration. *)
TypeOfStrLiteral(py2) == "str"

TypeOfUnicodeLiteral(py2) == IF py2 THEN "unicode" ELSE "str"

TypeOfBytesLiteral(py2) == IF py2 THEN "str" ELSE "bytes"

(* The representative instance each class probes. *)
Representative(cls, py2) ==
  CASE cls = DictMixin -> "dict"
    [] cls = ListMixin -> "list"
    [] cls = FrozensetMixin -> "frozenset"
    [] cls = SetMixin -> "set"
    [] cls = TupleMixin -> "tuple"
    [] cls = BoolMixin -> "bool"
    [] cls = StrMixin -> TypeOfStrLiteral(py2)
    [] cls = BytesMixin -> TypeOfBytesLiteral(py2)
    [] cls = BytearrayMixin -> "bytearray"
    [] cls = UnicodeMixin -> TypeOfUnicodeLiteral(py2)
    [] cls = StrOrUnicodeMixin -> TypeOfStrLiteral(py2)

(* ------------------------ methods of the classes ---------------------- *)

ShapeQueries ==
  {"hasShapeBoolExact", "hasShapeDictionaryExact", "hasShapeListExact",
   "hasShapeSetExact", "hasShapeFrozesetExact", "hasShapeTupleExact",
   "hasShapeStrExact", "hasShapeUnicodeExact", "hasShapeStrOrUnicodeExact",
   "hasShapeBytesExact", "hasShapeBytearrayExact"}

(* The has-shape methods and the diagnostic method each class body         *)
(* defines; every other has-shape query is inherited from the base.        *)
Overrides(cls) ==
  CASE cls = DictMixin ->
         {"hasShapeDictionaryExact", "extractUnhashableNodeType"}
    [] cls = ListMixin -> {"hasShapeListExact", "extractUnhashableNodeType"}
    [] cls = FrozensetMixin -> {"hasShapeListExact"}
    [] cls = SetMixin -> {"hasShapeSetExact", "extractUnhashableNodeType"}
    [] cls = TupleMixin -> {"hasShapeSetExact"}
    [] cls = BoolMixin -> {"hasShapeBoolExact"}
    [] cls = StrMixin -> {"hasShapeStrExact", "hasShapeStrOrUnicodeExact"}
    [] cls = BytesMixin -> {"hasShapeBytesExact"}
    [] cls = BytearrayMixin ->
         {"hasShapeBytearrayExact", "extractUnhashableNodeType"}
    [] cls = UnicodeMixin ->
         {"hasShapeUnicodeExact", "hasShapeStrOrUnicodeExact"}
    [] cls = StrOrUnicodeMixin -> {"hasShapeStrOrUnicodeExact"}

(* A has-shape query: True from the class that overrides it, else the      *)
(* base's False.                                                           *)
hasShapeExact(cls, query) ==
  IF query \in Overrides(cls) THEN PyTrue ELSE PyFalse

hasShapeBoolExact(cls) == hasShapeExact(cls, "hasShapeBoolExact")

hasShapeDictionaryExact(cls) == hasShapeExact(cls, "hasShapeDictionaryExact")

hasShapeListExact(cls) == hasShapeExact(cls, "hasShapeListExact")

hasShapeSetExact(cls) == hasShapeExact(cls, "hasShapeSetExact")

hasShapeFrozesetExact(cls) == hasShapeExact(cls, "hasShapeFrozesetExact")

hasShapeTupleExact(cls) == hasShapeExact(cls, "hasShapeTupleExact")

hasShapeStrExact(cls) == hasShapeExact(cls, "hasShapeStrExact")

hasShapeUnicodeExact(cls) == hasShapeExact(cls, "hasShapeUnicodeExact")

hasShapeStrOrUnicodeExact(cls) == hasShapeExact(cls, "hasShapeStrOrUnicodeExact")

hasShapeBytesExact(cls) == hasShapeExact(cls, "hasShapeBytesExact")

hasShapeBytearrayExact(cls) == hasShapeExact(cls, "hasShapeBytearrayExact")

hasShapeTrustedAttributes(cls) == PyTrue

getTypeShape(cls) ==
  CASE cls = DictMixin -> <<"shape", "tshape_dict">>
    [] cls = ListMixin -> <<"shape", "tshape_list">>
    [] cls = FrozensetMixin -> <<"shape", "tshape_frozenset">>
    [] cls = SetMixin -> <<"shape", "tshape_set">>
    [] cls = TupleMixin -> <<"shape", "tshape_tuple">>
    [] cls = BoolMixin -> <<"shape", "tshape_bool">>
    [] cls = StrMixin -> <<"shape", "tshape_str">>
    [] cls = BytesMixin -> <<"shape", "tshape_bytes">>
    [] cls = BytearrayMixin -> <<"shape", "tshape_bytearray">>
    [] cls = UnicodeMixin -> <<"shape", "tshape_unicode">>
    [] cls = StrOrUnicodeMixin -> <<"shape", "tshape_str_or_unicode">>

(* Variant: the base's default body, which answers True, left in place. *)
isKnownToHaveAttribute_BaseDefault(cls, py2, name) == PyTrue

(* Variant: the text union accepting a member of either text type. *)
isKnownToHaveAttribute_Either(cls, py2, name) ==
  IF cls = StrOrUnicodeMixin
  THEN PyBool(hasattr(TypeOfUnicodeLiteral(py2), py2, name)
              \/ hasattr(TypeOfStrLiteral(py2), py2, name))
  ELSE PyBool(hasattr(Representative(cls, py2), py2, name))

isKnownToHaveAttribute(cls, py2, name) ==
  IF cls = StrOrUnicodeMixin
  THEN PyBool(hasattr(TypeOfUnicodeLiteral(py2), py2, name)
              /\ hasattr(TypeOfStrLiteral(py2), py2, name))
  ELSE PyBool(hasattr(Representative(cls, py2), py2, name))

(* Variant: the text union fetching from the wide representative. *)
getKnownAttributeValue_Wide(cls, py2, name) ==
  IF cls = StrOrUnicodeMixin
  THEN getattr(TypeOfUnicodeLiteral(py2), py2, name)
  ELSE getattr(Representative(cls, py2), py2, name)

getKnownAttributeValue(cls, py2, name) ==
  getattr(Representative(cls, py2), py2, name)

(* Variant: the answer narrowed by the exception type. *)
mayRaiseExceptionAttributeLookup_ByType(cls, py2, exc, name) ==
  IF exc = "AttributeError"
  THEN PyNot(isKnownToHaveAttribute(cls, py2, name))
  ELSE PyFalse

mayRaiseExceptionAttributeLookup(cls, py2, exc, name) ==
  PyNot(isKnownToHaveAttribute(cls, py2, name))

(* Variant: the catch-all exception type reported as possible. *)
mayRaiseExceptionBool_CatchAll(cls, exc) == PyBool(exc = "BaseException")

mayRaiseExceptionBool(cls, exc) == PyFalse

mayHaveSideEffectsBool(cls) == PyFalse

(* Variant: the tuple's verdict collapsed to False. *)
isKnownToBeHashable_TupleNever(cls) ==
  CASE cls \in {DictMixin, ListMixin, SetMixin, BytearrayMixin,
                TupleMixin} -> PyFalse
    [] cls \in {FrozensetMixin, BoolMixin, StrMixin, BytesMixin,
                UnicodeMixin, StrOrUnicodeMixin} -> PyTrue

isKnownToBeHashable(cls) ==
  CASE cls \in {DictMixin, ListMixin, SetMixin, BytearrayMixin} -> PyFalse
    [] cls = TupleMixin -> PyNone
    [] cls \in {FrozensetMixin, BoolMixin, StrMixin, BytesMixin,
                UnicodeMixin, StrOrUnicodeMixin} -> PyTrue

makeConstantRefNode(constant, ref) == <<"node", "ConstantRef", constant, ref>>

(* Variant: the set class passing the frozenset type. *)
UnhashableConstant_SetAsFrozenset(cls) ==
  CASE cls = DictMixin -> "dict"
    [] cls = ListMixin -> "list"
    [] cls = SetMixin -> "frozenset"
    [] cls = BytearrayMixin -> "bytearray"

(* The constant each class's extractUnhashableNodeType passes. *)
UnhashableConstant(cls) ==
  CASE cls = DictMixin -> "dict"
    [] cls = ListMixin -> "list"
    [] cls = SetMixin -> "set"
    [] cls = BytearrayMixin -> "bytearray"

(* Classes without the method have no such attribute. *)
extractUnhashableNodeType(cls, ref) ==
  IF "extractUnhashableNodeType" \in Overrides(cls)
  THEN makeConstantRefNode(UnhashableConstant(cls), ref)
  ELSE <<"raise", "AttributeError">>

(* ------------------------------ actions ------------------------------- *)

(* The class of the node the optimizer holds. *)
self == ClassOf(mixin, str_is_bytes)

Init ==
  /\ str_is_bytes \in BOOLEAN
  /\ mixin \in MixinNames
  /\ source_ref \in SourceRefs
  /\ method = NoArg
  /\ exception_type = NoArg
  /\ attribute_name = NoArg
  /\ ret = NoCall

(* The optimizer moves on to another node. *)
Bind ==
  /\ mixin' \in MixinNames
  /\ source_ref' \in SourceRefs
  /\ method' = NoArg
  /\ exception_type' = NoArg
  /\ attribute_name' = NoArg
  /\ ret' = NoCall
  /\ UNCHANGED str_is_bytes

Returned(m, exc, name, r) ==
  /\ method' = m
  /\ exception_type' = exc
  /\ attribute_name' = name
  /\ ret' = r
  /\ UNCHANGED <<str_is_bytes, mixin, source_ref>>

Call_hasShapeBoolExact == Returned("hasShapeBoolExact", NoArg, NoArg, hasShapeBoolExact(self))

Call_hasShapeDictionaryExact == Returned("hasShapeDictionaryExact", NoArg, NoArg, hasShapeDictionaryExact(self))

Call_hasShapeListExact == Returned("hasShapeListExact", NoArg, NoArg, hasShapeListExact(self))

Call_hasShapeSetExact == Returned("hasShapeSetExact", NoArg, NoArg, hasShapeSetExact(self))

Call_hasShapeFrozesetExact == Returned("hasShapeFrozesetExact", NoArg, NoArg, hasShapeFrozesetExact(self))

Call_hasShapeTupleExact == Returned("hasShapeTupleExact", NoArg, NoArg, hasShapeTupleExact(self))

Call_hasShapeStrExact == Returned("hasShapeStrExact", NoArg, NoArg, hasShapeStrExact(self))

Call_hasShapeUnicodeExact == Returned("hasShapeUnicodeExact", NoArg, NoArg, hasShapeUnicodeExact(self))

Call_hasShapeStrOrUnicodeExact == Returned("hasShapeStrOrUnicodeExact", NoArg, NoArg, hasShapeStrOrUnicodeExact(self))

Call_hasShapeBytesExact == Returned("hasShapeBytesExact", NoArg, NoArg, hasShapeBytesExact(self))

Call_hasShapeBytearrayExact == Returned("hasShapeBytearrayExact", NoArg, NoArg, hasShapeBytearrayExact(self))

Call_hasShapeTrustedAttributes == Returned("hasShapeTrustedAttributes", NoArg, NoArg, hasShapeTrustedAttributes(self))

Call_getTypeShape == Returned("getTypeShape", NoArg, NoArg, getTypeShape(self))

Call_isKnownToBeHashable == Returned("isKnownToBeHashable", NoArg, NoArg, isKnownToBeHashable(self))

Call_mayHaveSideEffectsBool == Returned("mayHaveSideEffectsBool", NoArg, NoArg, mayHaveSideEffectsBool(self))

Call_isKnownToHaveAttribute ==
  \E name \in AttributeNames :
    Returned("isKnownToHaveAttribute", NoArg, name,
             isKnownToHaveAttribute(self, str_is_bytes, name))

Call_getKnownAttributeValue ==
  \E name \in AttributeNames :
    Returned("getKnownAttributeValue", NoArg, name,
             getKnownAttributeValue(self, str_is_bytes, name))

Call_mayRaiseExceptionAttributeLookup ==
  \E exc \in ExceptionTypes, name \in AttributeNames :
    Returned("mayRaiseExceptionAttributeLookup", exc, name,
             mayRaiseExceptionAttributeLookup(self, str_is_bytes, exc, name))

Call_mayRaiseExceptionBool ==
  \E exc \in ExceptionTypes :
    Returned("mayRaiseExceptionBool", exc, NoArg,
             mayRaiseExceptionBool(self, exc))

Call_extractUnhashableNodeType ==
  Returned("extractUnhashableNodeType", NoArg, NoArg,
           extractUnhashableNodeType(self, source_ref))

Next ==
  \/ Bind
  \/ Call_hasShapeBoolExact
  \/ Call_hasShapeDictionaryExact
  \/ Call_hasShapeListExact
  \/ Call_hasShapeSetExact
  \/ Call_hasShapeFrozesetExact
  \/ Call_hasShapeTupleExact
  \/ Call_hasShapeStrExact
  \/ Call_hasShapeUnicodeExact
  \/ Call_hasShapeStrOrUnicodeExact
  \/ Call_hasShapeBytesExact
  \/ Call_hasShapeBytearrayExact
  \/ Call_hasShapeTrustedAttributes
  \/ Call_getTypeShape
  \/ Call_isKnownToBeHashable
  \/ Call_mayHaveSideEffectsBool
  \/ Call_isKnownToHaveAttribute
  \/ Call_getKnownAttributeValue
  \/ Call_mayRaiseExceptionAttributeLookup
  \/ Call_mayRaiseExceptionBool
  \/ Call_extractUnhashableNodeType

Spec == Init /\ [][Next]_vars

(* ------------------- the catalog the claims refer to ------------------ *)

(* The is-shape-exactly-X query that names each variant. *)
ExactQueryOf(name) ==
  CASE name = DictMixin -> "hasShapeDictionaryExact"
    [] name = ListMixin -> "hasShapeListExact"
    [] name = FrozensetMixin -> "hasShapeFrozesetExact"
    [] name = SetMixin -> "hasShapeSetExact"
    [] name = TupleMixin -> "hasShapeTupleExact"
    [] name = BoolMixin -> "hasShapeBoolExact"
    [] name = StrMixin -> "hasShapeStrExact"
    [] name = BytesMixin -> "hasShapeBytesExact"
    [] name = BytearrayMixin -> "hasShapeBytearrayExact"
    [] name = UnicodeMixin -> "hasShapeUnicodeExact"
    [] name = StrOrUnicodeMixin -> "hasShapeStrOrUnicodeExact"

(* The type shapes an is-shape-exactly-X query names. *)
ShapesNamedBy(query) ==
  CASE query = "hasShapeDictionaryExact" -> {<<"shape", "tshape_dict">>}
    [] query = "hasShapeListExact" -> {<<"shape", "tshape_list">>}
    [] query = "hasShapeFrozesetExact" -> {<<"shape", "tshape_frozenset">>}
    [] query = "hasShapeSetExact" -> {<<"shape", "tshape_set">>}
    [] query = "hasShapeTupleExact" -> {<<"shape", "tshape_tuple">>}
    [] query = "hasShapeBoolExact" -> {<<"shape", "tshape_bool">>}
    [] query = "hasShapeStrExact" -> {<<"shape", "tshape_str">>}
    [] query = "hasShapeBytesExact" -> {<<"shape", "tshape_bytes">>}
    [] query = "hasShapeBytearrayExact" -> {<<"shape", "tshape_bytearray">>}
    [] query = "hasShapeUnicodeExact" -> {<<"shape", "tshape_unicode">>}
    [] query = "hasShapeStrOrUnicodeExact" ->
         {<<"shape", "tshape_str">>, <<"shape", "tshape_unicode">>,
          <<"shape", "tshape_str_or_unicode">>}

(* The built-in type of each variant's zero value; the narrow type for the *)
(* narrow-or-wide text variant.                                            *)
ZeroValueType(name, py2) ==
  CASE name = DictMixin -> "dict"
    [] name = ListMixin -> "list"
    [] name = FrozensetMixin -> "frozenset"
    [] name = SetMixin -> "set"
    [] name = TupleMixin -> "tuple"
    [] name = BoolMixin -> "bool"
    [] name = StrMixin -> "str"
    [] name = BytesMixin -> IF py2 THEN "str" ELSE "bytes"
    [] name = BytearrayMixin -> "bytearray"
    [] name = UnicodeMixin -> IF py2 THEN "unicode" ELSE "str"
    [] name = StrOrUnicodeMixin -> "str"

(* The hashability verdict the catalog gives each variant. *)
Verdict(name) ==
  CASE name \in {DictMixin, ListMixin, SetMixin, BytearrayMixin} -> "Never"
    [] name = TupleMixin -> "Unknown"
    [] OTHER -> "Always"

VerdictValue(v) ==
  CASE v = "Never" -> PyFalse
    [] v = "Always" -> PyTrue
    [] v = "Unknown" -> PyNone

(* The answer class cls gives to the call recorded in the state. *)
AnswerOf(cls) ==
  CASE method \in ShapeQueries -> hasShapeExact(cls, method)
    [] method = "hasShapeTrustedAttributes" -> hasShapeTrustedAttributes(cls)
    [] method = "getTypeShape" -> getTypeShape(cls)
    [] method = "isKnownToBeHashable" -> isKnownToBeHashable(cls)
    [] method = "mayHaveSideEffectsBool" -> mayHaveSideEffectsBool(cls)
    [] method = "isKnownToHaveAttribute" ->
         isKnownToHaveAttribute(cls, str_is_bytes, attribute_name)
    [] method = "getKnownAttributeValue" ->
         getKnownAttributeValue(cls, str_is_bytes, attribute_name)
    [] method = "mayRaiseExceptionAttributeLookup" ->
         mayRaiseExceptionAttributeLookup(cls, str_is_bytes, exception_type,
                                          attribute_name)
    [] method = "mayRaiseExceptionBool" ->
         mayRaiseExceptionBool(cls, exception_type)
    [] method = "extractUnhashableNodeType" ->
         extractUnhashableNodeType(cls, source_ref)
    [] OTHER -> NoCall

(* ------------------------------ claims -------------------------------- *)

(* C1: a node bound to variant K answers true to exactly one of the eleven *)
(* is-shape-exactly-X queries, the one with X = K, and false to all the    *)
(* others; only the narrow-or-wide text union variant is exempt.           *)
C1_ExactlyOwnShapeQuery ==
  (method \in ShapeQueries /\ mixin # StrOrUnicodeMixin)
    => (ret = PyTrue <=> method = ExactQueryOf(mixin))

(* C2: isKnownToBeHashable is False for dict, list, set and bytearray,     *)
(* True for bool, str, unicode, str-or-unicode, bytes and frozenset, and   *)
(* None for tuple; None is reported as neither False nor True.             *)
C2_HashabilityVerdict ==
  method = "isKnownToBeHashable"
    => /\ ret = VerdictValue(Verdict(mixin))
       /\ (Verdict(mixin) = "Unknown" => ret \notin {PyTrue, PyFalse})

C2_Witness ==
  method = "isKnownToBeHashable" /\ mixin = TupleMixin /\ ret = PyNone

(* C3: mayRaiseExceptionAttributeLookup(exception_type, name) is the       *)
(* negation of isKnownToHaveAttribute(name) of the same variant, whatever  *)
(* the exception type.                                                     *)
C3_MayRaiseIsNegation ==
  method = "mayRaiseExceptionAttributeLookup"
    => /\ ret \in {PyTrue, PyFalse}
       /\ (ret = PyTrue) <=>
            (isKnownToHaveAttribute(self, str_is_bytes, attribute_name)
               = PyFalse)

C3_Witness ==
  /\ method = "mayRaiseExceptionAttributeLookup"
  /\ exception_type = "TypeError"
  /\ mixin = ListMixin
  /\ attribute_name = "append"
  /\ ret = PyFalse

(* C4: extractUnhashableNodeType is supplied exactly by the variants whose *)
(* verdict is Never, and returns a constant reference to the variant's own *)
(* built-in type with the node's source reference; the others have none.   *)
C4_UnhashableNode ==
  method = "extractUnhashableNodeType"
    => IF isKnownToBeHashable(self) = PyFalse
       THEN ret = <<"node", "ConstantRef",
                    ZeroValueType(mixin, str_is_bytes), source_ref>>
       ELSE ret = <<"raise", "AttributeError">>

C4_Witness ==
  /\ method = "extractUnhashableNodeType"
  /\ mixin = BytearrayMixin
  /\ source_ref = MaxSourceRef
  /\ ret = <<"node", "ConstantRef", "bytearray", MaxSourceRef>>

(* C5: when isKnownToHaveAttribute(name) is true, getKnownAttributeValue   *)
(* (name) does not fail and is the attribute of that name on the zero      *)
(* value of the variant's built-in type (the narrow text type for the      *)
(* narrow-or-wide text variant).                                           *)
C5_KnownAttributeValue ==
  (/\ method = "getKnownAttributeValue"
   /\ isKnownToHaveAttribute(self, str_is_bytes, attribute_name) = PyTrue)
    => ret = <<"attr", ZeroValueType(mixin, str_is_bytes), attribute_name>>

C5_Witness ==
  /\ method = "getKnownAttributeValue"
  /\ str_is_bytes
  /\ mixin = StrOrUnicodeMixin
  /\ attribute_name = "count"
  /\ ret = <<"attr", "str", "count">>

(* C6: mayRaiseExceptionBool is false for every exception type and         *)
(* mayHaveSideEffectsBool is false, on every variant.                      *)
C6_BoolNeverRaises ==
  method \in {"mayRaiseExceptionBool", "mayHaveSideEffectsBool"}
    => ret = PyFalse

C6_Witness ==
  /\ method = "mayRaiseExceptionBool"
  /\ exception_type = "BaseException"
  /\ mixin = DictMixin
  /\ ret = PyFalse

(* C7: where str is not bytes, a node bound to the narrow-or-wide text     *)
(* variant gets from every query the answer the narrow text variant gives. *)
C7_UnifiedTextSameAsStr ==
  (~str_is_bytes /\ mixin = StrOrUnicodeMixin /\ method # NoArg)
    => ret = AnswerOf(StrMixin)

C7_Witness ==
  /\ ~str_is_bytes
  /\ mixin = StrOrUnicodeMixin
  /\ method = "getTypeShape"
  /\ ret = <<"shape", "tshape_str">>

(* C8: on a non-union variant isKnownToHaveAttribute(name) is true exactly *)
(* when the zero value of the variant's built-in type has a member of that *)
(* name: "append" is known on list and not on tuple, and a name no type    *)
(* has is known on no variant, where the lookup may raise.                 *)
C8_AttributeKnownIffMember ==
  /\ (method = "isKnownToHaveAttribute" /\ mixin # StrOrUnicodeMixin)
       => (ret = PyTrue <=>
             attribute_name \in Members(ZeroValueType(mixin, str_is_bytes),
                                        str_is_bytes))
  /\ (method = "isKnownToHaveAttribute" /\ attribute_name = "append")
       => /\ mixin = ListMixin => ret = PyTrue
          /\ mixin = TupleMixin => ret = PyFalse
  /\ (method = "isKnownToHaveAttribute"
      /\ attribute_name = "nonexistent_xyz") => ret = PyFalse
  /\ (method = "mayRaiseExceptionAttributeLookup"
      /\ attribute_name = "nonexistent_xyz") => ret = PyTrue

C8_Witness ==
  /\ method = "isKnownToHaveAttribute"
  /\ mixin = TupleMixin
  /\ attribute_name = "append"
  /\ ret = PyFalse

(* C9: where str is bytes, the narrow-or-wide text variant knows an        *)
(* attribute exactly when both the narrow and the wide text type have it,  *)
(* takes the value from the narrow type only, and answers true to          *)
(* hasShapeStrOrUnicodeExact alone among the is-shape queries.             *)
C9_DistinctTextUnion ==
  (str_is_bytes /\ mixin = StrOrUnicodeMixin)
    => /\ method = "isKnownToHaveAttribute"
            => (ret = PyTrue <=>
                  attribute_name \in
                    (Members("str", TRUE) \cap Members("unicode", TRUE)))
       /\ method = "getKnownAttributeValue"
            => ret = getattr("str", TRUE, attribute_name)
       /\ method \in ShapeQueries
            => (ret = PyTrue <=> method = "hasShapeStrOrUnicodeExact")

C9_Witness ==
  /\ str_is_bytes
  /\ mixin = StrOrUnicodeMixin
  /\ method = "isKnownToHaveAttribute"
  /\ attribute_name = "isnumeric"
  /\ ret = PyFalse

(* C10: whenever a variant answers true to an is-shape-exactly-X query,    *)
(* its getTypeShape is the shape X names (for hasShapeStrOrUnicodeExact    *)
(* one of the str, unicode and str-or-unicode shapes).                     *)
C10_TrueShapeAnswerIsSound ==
  (method \in ShapeQueries /\ ret = PyTrue)
    => getTypeShape(self) \in ShapesNamedBy(method)

====
